---- MODULE Spec2Model ----
(***************************************************************************)
(* A state-machine model of index.js, the browser host of swar.wasm: the   *)
(* preload store, the input event queue and its per-frame serialisation    *)
(* into guest memory, the start-up sequence and the frame loop, and the    *)
(* texture handle table.                                                   *)
(*                                                                         *)
(* The guest is the environment: every call into it (wasm_main,            *)
(* wasm_frame, wasm_get_event_buffer, wasm_set_event_count) either returns *)
(* or traps, and while it runs it may call the host's imports.             *)
(***************************************************************************)
EXTENDS Integers, Sequences, FiniteSets, TLC

\* ------------------------------------------------------------------ bounds
\* DOM events captured between two animation frames (free choice of event).
MaxQueue == 2
\* Animation-frame ticks explored.
MaxTicks == 2
\* Events of one burst of input (the overflow specification).
MaxBurst == 130
\* Textures the guest creates.
MaxTextures == 3
\* DOM events captured between two animation frames (the input specification).
MaxInputQueue == 1
\* Times the guest grows its memory.
MaxGrows == 2
\* File-system calls the guest makes in one run.
MaxCalls == 2
\* Bytes of the guest's destination buffer for file contents.
DestBytes == 4

\* ------------------------------------------------------- program constants
\* "MAX_EVENTS_PER_FRAME", the cap of Math.min(count, 128).
MAX_EVENTS_PER_FRAME == 128
\* const bytesPerEvent = 20
bytesPerEvent == 20

\* float32_array_by_ptr(mat, 16): 16 floats of 4 bytes.
MatBytes == 64
\* The buffer of a typed array that is no view of guest memory.
OwnBuffer == -1

OS_Window_Event_Type ==
    [NIL |-> 0, CLOSE |-> 1, RESIZE |-> 2, KEYBOARD |-> 3,
     MOUSE_BUTTON |-> 4, MOUSE_MOVE |-> 5, MOUSE_SCROLL |-> 6]

\* const OS_Key = { ... }
OS_Key ==
    [UNKNOWN |-> 0, MOUSE_L |-> 1, MOUSE_M |-> 2, MOUSE_R |-> 3,
     KEY_0 |-> 48, KEY_1 |-> 49, KEY_2 |-> 50, KEY_3 |-> 51, KEY_4 |-> 52,
     KEY_5 |-> 53, KEY_6 |-> 54, KEY_7 |-> 55, KEY_8 |-> 56, KEY_9 |-> 57,
     KEY_A |-> 97, KEY_B |-> 98, KEY_C |-> 99, KEY_D |-> 100,
     KEY_E |-> 101, KEY_F |-> 102, KEY_G |-> 103, KEY_H |-> 104,
     KEY_I |-> 105, KEY_J |-> 106, KEY_K |-> 107, KEY_L |-> 108,
     KEY_M |-> 109, KEY_N |-> 110, KEY_O |-> 111, KEY_P |-> 112,
     KEY_Q |-> 113, KEY_R |-> 114, KEY_S |-> 115, KEY_T |-> 116,
     KEY_U |-> 117, KEY_V |-> 118, KEY_W |-> 119, KEY_X |-> 120,
     KEY_Y |-> 121, KEY_Z |-> 122, LCONTROL |-> 256, RCONTROL |-> 257,
     LSHIFT |-> 258, RSHIFT |-> 259, LALT |-> 260, RALT |-> 261,
     META |-> 262, TAB |-> 263, CAPS |-> 264, BACKSPACE |-> 265,
     DELETE |-> 266, RETURN |-> 267, ESCAPE |-> 268, SPACE |-> 269,
     UP |-> 270, RIGHT |-> 271, DOWN |-> 272, LEFT |-> 273, HOME |-> 274,
     END |-> 275, F1 |-> 276, F2 |-> 277, F3 |-> 278, F4 |-> 279,
     F5 |-> 280, F6 |-> 281, F7 |-> 282, F8 |-> 283, F9 |-> 284,
     F10 |-> 285, F11 |-> 286, F12 |-> 287]

PixelFormat == [RGBA |-> 0, RGB |-> 1, R |-> 2, ALPHA |-> 3]

\* 'public/font.ttf' as its UTF-16 code units (all ASCII).
FontPath == <<112, 117, 98, 108, 105, 99, 47, 102, 111, 110, 116, 46, 116, 116, 102>>

\* const filesToPreload = ['public/font.ttf']
filesToPreload == <<FontPath>>

PreloadPaths == {filesToPreload[i] : i \in 1..Len(filesToPreload)}

\* ------------------------------------------------------ guest memory layout
\* The guest owns its linear memory; the model follows a window of it that
\* holds the guest's event buffer (128 records), a path string of the guest's
\* data segment and a destination buffer for file contents.
EventBufBytes == MAX_EVENTS_PER_FRAME * bytesPerEvent

\* Addresses wasm_get_event_buffer may return (a guest-controlled address).
EventBufPtrs == {0, 12}

PathPtr == 12 + EventBufBytes
DestPtr == PathPtr + Len(FontPath)
\* A matrix of the guest's data.
MatPtr == DestPtr + DestBytes + 2
MemBytes == MatPtr + MatBytes
Addrs == 0..(MemBytes - 1)

\* The guest's memory as instantiation leaves it: zero, but for the data
\* segment holding the path string.
GuestImage ==
    [a \in Addrs |->
        IF a >= PathPtr /\ a < PathPtr + Len(FontPath)
        THEN FontPath[a - PathPtr + 1] ELSE 0]

ZeroMem == [a \in Addrs |-> 0]

\* --------------------------------------------------------------- variables
VARIABLES
    pc,             \* where init()/gameLoop() stand, or "idle" in the event loop
    rafPending,     \* a requestAnimationFrame(gameLoop) callback is scheduled
    wasm,           \* let wasm = null | the instantiated module
    hasFrame,       \* the guest exports wasm_frame
    listeners,      \* setupEventListeners() has run
    fetchState,     \* per preload path: the state of its async fetch
    fetchCount,     \* per preload path: fetch() calls issued
    preloadedFiles, \* let preloadedFiles = new Map(): path -> bytes
    mem,            \* wasm.instance.exports.memory.buffer (the window)
    eventQueue,     \* let eventQueue = []
    eventBufferPtr, \* writeEventsToWASM's local eventBufferPtr
    setCountArg,    \* last argument of wasm_set_event_count, -1: never called
    stores,         \* byte offsets of the last writeEventsToWASM's setInt32 calls
    log,            \* guest calls and host steps of the current tick, in order
    ticks,          \* animation-frame callbacks run so far
    tickLen,        \* eventQueue.length when the current tick began
    pushCount,      \* pushEvent calls so far
    eventIds,       \* for each queued event, its pushEvent number
    pushMeta,       \* per pushEvent number: the tick count and queue position
    serialized,     \* <<pushEvent number, tick>> pairs written to guest memory
    mainCalls,      \* wasm_main invocations
    initError,      \* what rejected init(), "none" if nothing did
    glReady,        \* js_create_canvas has set gl
    textureMap,     \* let textureMap = new Map(): handle -> texture object
    nextTextureHandle,
    currentTexture, \* texture object bound by webgl_set_texture, 0: null
    currentTexturePixelFormat,
    deletedTextures,\* texture objects passed to gl.deleteTexture
    handlesReturned,\* handles webgl_create_texture returned, in order
    destroyLog,     \* <<handle removed by webgl_destroy_texture, creates before it>>
    lastCall,       \* the last file-system import call: its number, path, result
    domEvent,       \* the last DOM event handled since the frame began
    canvasSize,     \* canvas.width, canvas.height
    originalSize,   \* setupEventListeners' originalWidth, originalHeight
    fullscreen,     \* document.fullscreenElement === canvasContainer
    fsRequest,      \* a requestFullscreen / exitFullscreen call not yet answered
    memBuffer,      \* which ArrayBuffer exports.memory.buffer is: memory.grow
                    \* detaches the old one and makes a new one
    callBuffer,     \* memBuffer when wasm_get_event_buffer was called
    viewUse,        \* the last access through a view of guest memory
    matProj,        \* let matProj: a Float32Array, as its bytes
    matModel,       \* let matModel
    programInfo,    \* webgl_init has set programInfo
    uniforms        \* what the last webgl_draw_vertex_buffer gave the shader

hostVars == <<pc, rafPending, wasm, hasFrame, listeners, mainCalls, initError>>
fileVars == <<fetchState, fetchCount, preloadedFiles, lastCall>>
evVars == <<eventQueue, eventBufferPtr, setCountArg, stores, pushCount,
            eventIds, pushMeta, serialized>>
tickVars == <<log, ticks, tickLen>>
texVars == <<glReady, textureMap, nextTextureHandle, currentTexture,
             currentTexturePixelFormat, deletedTextures, handlesReturned,
             destroyLog>>

domVars == <<domEvent, canvasSize, originalSize, fullscreen, fsRequest>>

gpuVars == <<memBuffer, callBuffer, viewUse, matProj, matModel, programInfo,
             uniforms>>

vars == <<hostVars, fileVars, evVars, tickVars, texVars, domVars, gpuVars, mem>>

NoCall == [n |-> 0, fn |-> "none", path |-> <<>>, ret |-> 0, dest_ptr |-> 0, max_size |-> 0]

NoRect == [left2 |-> 0, top2 |-> 0]
NoDomEvent == [type |-> "none", event |-> <<>>, rect |-> NoRect]

\* The bytes of a matrix with d on its diagonal and 0.0 elsewhere, d given
\* as the four little-endian bytes of the float.
Diagonal(d) ==
    [i \in 1..MatBytes |->
        IF ((i - 1) \div 4) % 5 = 0 THEN d[((i - 1) % 4) + 1] ELSE 0]

\* 1.0 and 2.0 as IEEE 754 singles, little-endian.
FloatOne == <<0, 0, 128, 63>>
FloatTwo == <<0, 0, 0, 64>>

\* new Float32Array([1, 0, 0, 0, 0, 1, 0, 0, 0, 0, 1, 0, 0, 0, 0, 1]): an
\* array with a buffer of its own.
IdentityMatrix == [buffer |-> OwnBuffer, ptr |-> 0, data |-> Diagonal(FloatOne)]

NoViewUse == [fn |-> "none", viewBuffer |-> 0, buffer |-> 0]
NoUniforms == [drawn |-> FALSE, proj |-> <<>>, model |-> <<>>, useTexture |-> 0, isText |-> 0]

\* The canvas element before js_create_canvas sizes it: 300 x 150, the
\* default size of a canvas element.
DefaultCanvas == [width |-> 300, height |-> 150]

\* The module-level initialisers of index.js, before init() runs.
Init ==
    /\ pc = "start"
    /\ rafPending = FALSE
    /\ wasm = "null"
    /\ hasFrame = FALSE
    /\ listeners = FALSE
    /\ fetchState = [p \in PreloadPaths |-> "idle"]
    /\ fetchCount = [p \in PreloadPaths |-> 0]
    /\ preloadedFiles = <<>>
    /\ mem = ZeroMem
    /\ eventQueue = <<>>
    /\ eventBufferPtr = 0
    /\ setCountArg = -1
    /\ stores = <<>>
    /\ log = <<>>
    /\ ticks = 0
    /\ tickLen = 0
    /\ pushCount = 0
    /\ eventIds = <<>>
    /\ pushMeta = <<>>
    /\ serialized = {}
    /\ mainCalls = 0
    /\ initError = "none"
    /\ glReady = FALSE
    /\ textureMap = <<>>
    /\ nextTextureHandle = 1
    /\ currentTexture = 0
    /\ currentTexturePixelFormat = 0
    /\ deletedTextures = {}
    /\ handlesReturned = <<>>
    /\ destroyLog = {}
    /\ lastCall = NoCall
    /\ domEvent = NoDomEvent
    /\ canvasSize = DefaultCanvas
    /\ originalSize = [width |-> 0, height |-> 0]
    /\ fullscreen = FALSE
    /\ fsRequest = "none"
    /\ memBuffer = 0
    /\ callBuffer = 0
    /\ viewUse = NoViewUse
    /\ matProj = IdentityMatrix
    /\ matModel = IdentityMatrix
    /\ programInfo = FALSE
    /\ uniforms = NoUniforms

\* ------------------------------------------------------------- start-up
\* Contents a successful fetch may deliver.
FileContents == {<<>>, <<7>>, <<1, 2, 3>>}

\* Map.prototype.set
MapSet(map, key, value) ==
    [k \in (DOMAIN map) \cup {key} |-> IF k = key THEN value ELSE map[k]]

\* Map.prototype.delete
MapDelete(map, key) == [k \in (DOMAIN map) \ {key} |-> map[k]]

Settled(state) == state \in {"ok", "http_error", "net_error", "body_error"}

\* init() up to its first await: the memory object is created and
\* preloadFiles() issues one fetch per listed path.
InitStart ==
    /\ pc = "start"
    /\ pc' = "await_preload"
    /\ fetchState' = [p \in PreloadPaths |-> "pending"]
    /\ fetchCount' = [p \in PreloadPaths |-> fetchCount[p] + 1]
    /\ UNCHANGED <<gpuVars, domVars,
                   rafPending, wasm, hasFrame, listeners, mainCalls, initError,
                   preloadedFiles, lastCall, evVars, tickVars, texVars, mem>>

\* preloadFiles without the return after the !response.ok warning: the body
\* of the error response is stored like a file.
FetchResponds_NoReturn(p, outcome) ==
    /\ pc = "await_preload"
    /\ fetchState[p] = "pending"
    /\ outcome \in {"reading", "http_error", "net_error"}
    /\ fetchState' = [fetchState EXCEPT ![p] = outcome]
    /\ preloadedFiles' = IF outcome = "http_error"
                         THEN MapSet(preloadedFiles, p, <<>>)
                         ELSE preloadedFiles
    /\ UNCHANGED <<gpuVars, domVars,
                   hostVars, fetchCount, lastCall, evVars, tickVars, texVars, mem>>

\* await fetch(filepath) settles: the promise rejects (network error, caught
\* and logged), or resolves with a response that is ok or not.
FetchResponds(p, outcome) ==
    /\ pc = "await_preload"
    /\ fetchState[p] = "pending"
    /\ outcome \in {"reading", "http_error", "net_error"}
    /\ fetchState' = [fetchState EXCEPT ![p] = outcome]
    /\ UNCHANGED <<gpuVars, domVars,
                   hostVars, fetchCount, preloadedFiles, lastCall, evVars,
                   tickVars, texVars, mem>>

\* await response.arrayBuffer() resolves: the bytes are stored under the path.
BodyArrives(p, bytes) ==
    /\ pc = "await_preload"
    /\ fetchState[p] = "reading"
    /\ fetchState' = [fetchState EXCEPT ![p] = "ok"]
    /\ preloadedFiles' = MapSet(preloadedFiles, p, bytes)
    /\ UNCHANGED <<gpuVars, domVars,
                   hostVars, fetchCount, lastCall, evVars, tickVars, texVars, mem>>

\* await response.arrayBuffer() rejects: caught and logged, nothing stored.
BodyFails(p) ==
    /\ pc = "await_preload"
    /\ fetchState[p] = "reading"
    /\ fetchState' = [fetchState EXCEPT ![p] = "body_error"]
    /\ UNCHANGED <<gpuVars, domVars,
                   hostVars, fetchCount, preloadedFiles, lastCall, evVars,
                   tickVars, texVars, mem>>

\* init() going on without awaiting the fetches.
PreloadDone_NoAwait ==
    /\ pc = "await_preload"
    /\ pc' = "fetch_wasm"
    /\ UNCHANGED <<gpuVars, domVars,
                   rafPending, wasm, hasFrame, listeners, mainCalls, initError,
                   fileVars, evVars, tickVars, texVars, mem>>

\* await Promise.all(promises) resolves once every per-file function has
\* returned; init() goes on to fetch("swar.wasm").
PreloadDone ==
    /\ pc = "await_preload"
    /\ \A p \in PreloadPaths : Settled(fetchState[p])
    /\ pc' = "fetch_wasm"
    /\ UNCHANGED <<gpuVars, domVars,
                   rafPending, wasm, hasFrame, listeners, mainCalls, initError,
                   fileVars, evVars, tickVars, texVars, mem>>

\* fetch("swar.wasm") and response.arrayBuffer() resolve.
WasmFetched ==
    /\ pc = "fetch_wasm"
    /\ pc' = "instantiating"
    /\ UNCHANGED <<gpuVars, domVars,
                   rafPending, wasm, hasFrame, listeners, mainCalls, initError,
                   fileVars, evVars, tickVars, texVars, mem>>

\* fetch("swar.wasm"), arrayBuffer() or WebAssembly.instantiate rejects:
\* init() has no handler, its promise rejects and nothing further runs.
InitRejects ==
    /\ pc \in {"fetch_wasm", "instantiating"}
    /\ pc' = "init_rejected"
    /\ initError' = pc
    /\ UNCHANGED <<gpuVars,
                   domVars, rafPending, wasm, hasFrame, listeners, mainCalls,
                   fileVars, evVars, tickVars, texVars, mem>>

\* WebAssembly.instantiate resolves; init() assigns wasm and calls
\* wasm.instance.exports.wasm_main() at once.
Instantiated(exportsFrame) ==
    /\ pc = "instantiating"
    /\ wasm' = "instance"
    /\ hasFrame' = exportsFrame
    /\ mem' = GuestImage
    /\ mainCalls' = mainCalls + 1
    /\ pc' = "in_main"
    /\ UNCHANGED <<gpuVars, domVars,
                   rafPending, listeners, initError, fileVars, evVars, tickVars,
                   texVars>>

\* wasm_main returns: setupEventListeners() registers the DOM listeners and
\* requestAnimationFrame(gameLoop) schedules the first tick.
MainReturns ==
    /\ pc = "in_main"
    /\ listeners' = TRUE
    /\ rafPending' = TRUE
    /\ pc' = "idle"
    /\ UNCHANGED <<gpuVars, domVars,
                   wasm, hasFrame, mainCalls, initError, fileVars, evVars,
                   tickVars, texVars, mem>>

\* A guest call made from init() throws (a trap, or an exception of a host
\* import propagating through the guest): init() rejects.
MainTraps ==
    /\ pc = "in_main"
    /\ pc' = "init_rejected"
    /\ initError' = "in_main"
    /\ UNCHANGED <<gpuVars,
                   domVars, rafPending, wasm, hasFrame, listeners, mainCalls,
                   fileVars, evVars, tickVars, texVars, mem>>

\* ------------------------------------------------------------ event system
\* Byte k (0 = least significant) of the two's complement form of an int32.
Int32Byte(value, k) ==
    CASE k = 0 -> value % 256
      [] k = 1 -> (value \div 256) % 256
      [] k = 2 -> (value \div 65536) % 256
      [] k = 3 -> (value \div 16777216) % 256

\* setInt32 called without its littleEndian argument: big-endian.
setInt32Byte_BigEndian(value, k, littleEndian) == Int32Byte(value, 3 - k)

\* DataView.prototype.setInt32(byteOffset, value, littleEndian): the byte it
\* stores at byteOffset + k.
setInt32Byte(value, k, littleEndian) ==
    Int32Byte(value, IF littleEndian THEN k ELSE 3 - k)

\* DataView.prototype.getInt32(byteOffset, littleEndian), as the guest reads
\* an i32 field back.
getInt32(view, byteOffset, littleEndian) ==
    LET b(k) == view[byteOffset + (IF littleEndian THEN k ELSE 3 - k)]
    IN b(0) + 256 * b(1) + 65536 * b(2)
         + 16777216 * (IF b(3) >= 128 THEN b(3) - 256 ELSE b(3))

\* function pushEvent(type, x, y, pressed, key)
pushEvent(type, x, y, pressed, key) ==
    /\ eventQueue' = Append(eventQueue,
            [type |-> type, x |-> x, y |-> y, pressed |-> pressed, key |-> key])
    /\ pushCount' = pushCount + 1
    /\ eventIds' = Append(eventIds, pushCount + 1)
    /\ pushMeta' = Append(pushMeta, [tick |-> ticks, pos |-> Len(eventQueue) + 1])

\* The field the loop body stores at offset + 4 * f.
EventField(event, f) ==
    CASE f = 0 -> event.type
      [] f = 1 -> event.x
      [] f = 2 -> event.y
      [] f = 3 -> event.pressed
      [] f = 4 -> event.key

\* for (let i = 0; i < maxEvents; i++) { five setInt32; offset += bytesPerEvent }
\* with offset starting at eventBufferPtr: iteration i stores field f of
\* eventQueue[i] at eventBufferPtr + i * bytesPerEvent + 4 * f, little-endian.
\* The result is [view, stores, reads]: the memory after the loop, the byte
\* offsets of its setInt32 calls and the queue indexes it read, in order.
WriteLoop(view, queue, maxEvents, eventBufferPtr0) ==
    [view |->
        [a \in DOMAIN view |->
            IF a >= eventBufferPtr0 /\ a < eventBufferPtr0 + maxEvents * bytesPerEvent
            THEN LET rel == a - eventBufferPtr0
                     i == rel \div bytesPerEvent
                     f == (rel % bytesPerEvent) \div 4
                 IN setInt32Byte(EventField(queue[i + 1], f), rel % 4, TRUE)
            ELSE view[a]],
     stores |->
        [k \in 1..(5 * maxEvents) |->
            eventBufferPtr0 + ((k - 1) \div 5) * bytesPerEvent + 4 * ((k - 1) % 5)],
     reads |-> [k \in 1..maxEvents |-> k - 1]]

Min(a, b) == IF a < b THEN a ELSE b

Range(seq) == {seq[j] : j \in 1..Len(seq)}

\* The loop bound without the cap: const maxEvents = count.
MaxEventsOf_NoCap(count) == count

\* const maxEvents = Math.min(count, 128)
MaxEventsOf(count) == Min(count, MAX_EVENTS_PER_FRAME)

\* clearEventQueue that drops only what was written: eventQueue.splice(0, 128).
clearEventQueue_KeepsOverflow ==
    /\ eventQueue' = SubSeq(eventQueue, MAX_EVENTS_PER_FRAME + 1, Len(eventQueue))
    /\ eventIds' = SubSeq(eventIds, MAX_EVENTS_PER_FRAME + 1, Len(eventIds))

\* function clearEventQueue()
clearEventQueue ==
    /\ eventQueue' = <<>>
    /\ eventIds' = <<>>

\* ------------------------------------------------------------- frame loop
\* gameLoop calling writeEventsToWASM() without the eventQueue.length test, and
\* writeEventsToWASM without its own count === 0 return.
GameLoopEnter_AlwaysFlush ==
    /\ pc = "idle"
    /\ rafPending
    /\ ticks' = IF ticks < MaxTicks THEN ticks + 1 ELSE ticks
    /\ tickLen' = Len(eventQueue)
    /\ IF wasm = "instance" /\ hasFrame
       THEN /\ rafPending' = FALSE
            /\ UNCHANGED <<eventQueue, eventIds>>
            /\ pc' = "in_get_event_buffer"
            /\ log' = <<"wasm_get_event_buffer">>
       ELSE /\ clearEventQueue
            /\ rafPending' = TRUE
            /\ pc' = "idle"
            /\ log' = <<"clearEventQueue", "requestAnimationFrame">>
    /\ domEvent' = NoDomEvent
    /\ callBuffer' = memBuffer
    /\ UNCHANGED <<memBuffer, viewUse, matProj, matModel, programInfo, uniforms,
                   canvasSize, originalSize, fullscreen, fsRequest, wasm, hasFrame, listeners, mainCalls, initError, fileVars,
                   eventBufferPtr, setCountArg, stores, pushCount, pushMeta,
                   serialized, texVars, mem>>

\* The animation-frame callback gameLoop starts. With no wasm_frame export
\* it only clears the queue and reschedules itself; otherwise a non-empty
\* queue makes it enter writeEventsToWASM, which first calls
\* wasm_get_event_buffer, and an empty one makes it call wasm_frame at once.
GameLoopEnter ==
    /\ pc = "idle"
    /\ rafPending
    /\ ticks' = IF ticks < MaxTicks THEN ticks + 1 ELSE ticks
    /\ tickLen' = Len(eventQueue)
    /\ IF wasm = "instance" /\ hasFrame
       THEN /\ rafPending' = FALSE
            /\ UNCHANGED <<eventQueue, eventIds>>
            /\ IF Len(eventQueue) > 0
               THEN /\ pc' = "in_get_event_buffer"
                    /\ log' = <<"wasm_get_event_buffer">>
               ELSE /\ pc' = "in_frame"
                    /\ log' = <<"wasm_frame">>
       ELSE /\ clearEventQueue
            /\ rafPending' = TRUE
            /\ pc' = "idle"
            /\ log' = <<"clearEventQueue", "requestAnimationFrame">>
    /\ domEvent' = NoDomEvent
    /\ callBuffer' = memBuffer
    /\ UNCHANGED <<memBuffer, viewUse, matProj, matModel, programInfo, uniforms,
                   canvasSize, originalSize, fullscreen, fsRequest, wasm, hasFrame, listeners, mainCalls, initError, fileVars,
                   eventBufferPtr, setCountArg, stores, pushCount, pushMeta,
                   serialized, texVars, mem>>

\* writeEventsToWASM taking its buffer before it calls the guest.
FlushBuffer_BeforeCall(atEntry, atReturn) == atEntry

\* const buffer = wasm.instance.exports.memory.buffer, read once
\* wasm_get_event_buffer() has returned.
FlushBuffer(atEntry, atReturn) == atReturn

\* wasm_get_event_buffer returns ptr; writeEventsToWASM takes a view of the
\* memory buffer, stores the first maxEvents records and calls
\* wasm_set_event_count(maxEvents). Through a view of a detached buffer the
\* first setInt32 throws a TypeError instead, which leaves gameLoop.
GetEventBufferReturns(ptr) ==
    /\ pc = "in_get_event_buffer"
    /\ \E buffer \in {FlushBuffer(callBuffer, memBuffer)} :
        /\ viewUse' = [fn |-> "writeEventsToWASM", viewBuffer |-> buffer,
                       buffer |-> memBuffer]
        /\ IF buffer = memBuffer
           THEN /\ \E maxEvents \in {MaxEventsOf(Len(eventQueue))} :
                   \E done \in {WriteLoop(mem, eventQueue, maxEvents, ptr)} :
                      /\ mem' = done.view
                      /\ stores' = done.stores
                      /\ serialized' = serialized \cup
                            {<<eventIds[i + 1], ticks>> : i \in Range(done.reads)}
                      /\ setCountArg' = maxEvents
                /\ pc' = "in_set_event_count"
                /\ log' = log \o <<"write", "wasm_set_event_count">>
           ELSE /\ pc' = "idle"
                /\ log' = Append(log, "throw")
                /\ UNCHANGED <<mem, stores, serialized, setCountArg>>
    /\ eventBufferPtr' = ptr
    /\ UNCHANGED <<memBuffer, callBuffer, matProj, matModel, programInfo,
                   uniforms, domVars, rafPending, wasm, hasFrame, listeners,
                   mainCalls, initError, fileVars, eventQueue, pushCount,
                   eventIds, pushMeta, ticks, tickLen, texVars>>

\* wasm_set_event_count returns, writeEventsToWASM returns, and gameLoop
\* calls wasm_frame.
SetEventCountReturns ==
    /\ pc = "in_set_event_count"
    /\ pc' = "in_frame"
    /\ log' = Append(log, "wasm_frame")
    /\ UNCHANGED <<gpuVars, domVars,
                   rafPending, wasm, hasFrame, listeners, mainCalls, initError,
                   fileVars, evVars, ticks, tickLen, texVars, mem>>

\* wasm_frame returns: clearEventQueue(); requestAnimationFrame(gameLoop).
FrameReturns ==
    /\ pc = "in_frame"
    /\ clearEventQueue
    /\ rafPending' = TRUE
    /\ pc' = "idle"
    /\ log' = log \o <<"clearEventQueue", "requestAnimationFrame">>
    /\ UNCHANGED <<gpuVars, domVars,
                   wasm, hasFrame, listeners, mainCalls, initError, fileVars,
                   eventBufferPtr, setCountArg, stores, pushCount, pushMeta,
                   serialized, ticks, tickLen, texVars, mem>>

\* A guest call made from gameLoop throws: the exception leaves the callback,
\* which has no handler, before clearEventQueue and requestAnimationFrame.
FrameTraps ==
    /\ pc \in {"in_get_event_buffer", "in_set_event_count", "in_frame"}
    /\ pc' = "idle"
    /\ log' = Append(log, "throw")
    /\ UNCHANGED <<gpuVars, domVars,
                   rafPending, wasm, hasFrame, listeners, mainCalls, initError,
                   fileVars, evVars, ticks, tickLen, texVars, mem>>

\* ------------------------------------------------------- guest imports
\* The guest calls its imports while one of its exports runs. An import that
\* throws (a WebGL call while gl is still undefined, a view outside the
\* memory) changes nothing of the state below and throws through the guest:
\* that is MainTraps or FrameTraps.
GuestRunning == pc \in {"in_main", "in_frame"}

\* TextDecoder().decode of bytes that are ASCII, or single bytes no UTF-8
\* sequence contains (decoded as U+FFFD); the string as its code units.
Utf8Decode(bytes) ==
    [i \in 1..Len(bytes) |-> IF bytes[i] < 128 THEN bytes[i] ELSE 65533]

\* function cstr_by_ptr(mem_buffer, ptr, count)
cstr_by_ptr(mem_buffer, ptr, count) ==
    Utf8Decode([i \in 1..count |-> mem_buffer[ptr + i - 1]])

\* A lookup that takes the first stored path the requested one is a prefix of.
js_get_preloaded_file_PrefixMatch(path_ptr, path_len) ==
    LET path == cstr_by_ptr(mem, path_ptr, path_len)
        hits == {q \in DOMAIN preloadedFiles :
                    Len(path) <= Len(q) /\ SubSeq(q, 1, Len(path)) = path}
    IN IF hits # {}
       THEN [found |-> TRUE, data |-> preloadedFiles[CHOOSE q \in hits : TRUE]]
       ELSE [found |-> FALSE, data |-> <<>>]

\* function js_get_preloaded_file(path_ptr, path_len): the file's bytes, or
\* null (here [found |-> FALSE]) when preloadedFiles.get(path) is undefined.
js_get_preloaded_file(path_ptr, path_len) ==
    LET path == cstr_by_ptr(mem, path_ptr, path_len)
    IN IF path \in DOMAIN preloadedFiles
       THEN [found |-> TRUE, data |-> preloadedFiles[path]]
       ELSE [found |-> FALSE, data |-> <<>>]

\* The value js_get_file_size returns.
FileSizeResult(path_ptr, path_len) ==
    LET fileData == js_get_preloaded_file(path_ptr, path_len)
    IN IF fileData.found THEN Len(fileData.data) ELSE 0

\* function js_get_file_size(path_ptr, path_len)
JsGetFileSize(path_ptr, path_len) ==
    /\ GuestRunning
    /\ lastCall' = [n |-> lastCall.n + 1, fn |-> "js_get_file_size",
                    path |-> cstr_by_ptr(mem, path_ptr, path_len),
                    ret |-> FileSizeResult(path_ptr, path_len),
                    dest_ptr |-> 0, max_size |-> 0]
    /\ viewUse' = [fn |-> "cstr_by_ptr", viewBuffer |-> memBuffer,
                   buffer |-> memBuffer]
    /\ UNCHANGED <<memBuffer, callBuffer, matProj, matModel, programInfo,
                   uniforms, domVars, hostVars, fetchState, fetchCount, preloadedFiles, evVars,
                   tickVars, texVars, mem>>

\* js_copy_file_to_wasm copying the whole file whatever max_size is.
CopyFileResult_IgnoresMax(path_ptr, path_len, dest_ptr, max_size) ==
    LET fileData == js_get_preloaded_file(path_ptr, path_len)
    IN IF ~fileData.found
       THEN [ret |-> 0, view |-> mem]
       ELSE [ret |-> Len(fileData.data),
             view |-> [a \in DOMAIN mem |->
                        IF a >= dest_ptr /\ a < dest_ptr + Len(fileData.data)
                        THEN fileData.data[a - dest_ptr + 1] ELSE mem[a]]]

\* The value js_copy_file_to_wasm returns and the memory it leaves.
CopyFileResult(path_ptr, path_len, dest_ptr, max_size) ==
    LET fileData == js_get_preloaded_file(path_ptr, path_len)
        bytesToCopy == Min(Len(fileData.data), max_size)
    IN IF ~fileData.found
       THEN [ret |-> 0, view |-> mem]
       ELSE [ret |-> bytesToCopy,
             view |-> [a \in DOMAIN mem |->
                        IF a >= dest_ptr /\ a < dest_ptr + bytesToCopy
                        THEN fileData.data[a - dest_ptr + 1] ELSE mem[a]]]

\* new Uint8Array(buffer, dest_ptr, bytesToCopy) throws a RangeError for a
\* negative length or a range outside the buffer (a file that is found only).
CopyFileThrows(path_ptr, path_len, dest_ptr, max_size) ==
    LET fileData == js_get_preloaded_file(path_ptr, path_len)
        bytesToCopy == Min(Len(fileData.data), max_size)
    IN /\ fileData.found
       /\ \/ bytesToCopy < 0
          \/ dest_ptr < 0
          \/ dest_ptr + bytesToCopy > MemBytes

\* function js_copy_file_to_wasm(path_ptr, path_len, dest_ptr, max_size), when
\* it returns; when it throws, the exception goes through the guest (MainTraps,
\* FrameTraps) with nothing written.
JsCopyFileToWasm(path_ptr, path_len, dest_ptr, max_size) ==
    /\ GuestRunning
    /\ ~CopyFileThrows(path_ptr, path_len, dest_ptr, max_size)
    /\ \E r \in {CopyFileResult(path_ptr, path_len, dest_ptr, max_size)} :
        /\ mem' = r.view
        /\ lastCall' = [n |-> lastCall.n + 1, fn |-> "js_copy_file_to_wasm",
                        path |-> cstr_by_ptr(mem, path_ptr, path_len),
                        ret |-> r.ret,
                        dest_ptr |-> dest_ptr, max_size |-> max_size]
    /\ viewUse' = [fn |-> "js_copy_file_to_wasm", viewBuffer |-> memBuffer,
                   buffer |-> memBuffer]
    /\ UNCHANGED <<memBuffer, callBuffer, matProj, matModel, programInfo,
                   uniforms, domVars, hostVars, fetchState, fetchCount, preloadedFiles,
                   evVars, tickVars, texVars>>

\* function js_create_canvas(width, height): sizes the canvas and sets
\* gl = canvas.getContext("webgl2")
JsCreateCanvas(width, height) ==
    /\ GuestRunning
    /\ canvasSize' = [width |-> width, height |-> height]
    /\ glReady' = TRUE
    /\ UNCHANGED <<gpuVars,
                   domEvent, originalSize, fullscreen, fsRequest, hostVars,
                   fileVars, evVars, tickVars, mem, textureMap,
                   nextTextureHandle, currentTexture, currentTexturePixelFormat,
                   deletedTextures, handlesReturned, destroyLog>>

\* A handle allocator that hands out the lowest handle not in textureMap.
NewHandle_LowestFree ==
    [handle |-> CHOOSE h \in 1..(nextTextureHandle + 1) :
                    /\ h \notin DOMAIN textureMap
                    /\ \A g \in 1..(h - 1) : g \in DOMAIN textureMap,
     next |-> nextTextureHandle + 1]

\* The handle webgl_create_texture gives the new texture, and the counter
\* after it: const handle = nextTextureHandle++.
NewHandle == [handle |-> nextTextureHandle, next |-> nextTextureHandle + 1]

\* function webgl_create_texture(data_ptr, width, height, pixel_format, filter).
\* gl.createTexture() returns a new object, here the number of the call; the
\* pixel data and the GL parameters do not reach the host's own state.
WebglCreateTexture ==
    /\ GuestRunning
    /\ glReady
    /\ LET texture == Len(handlesReturned) + 1
           new == NewHandle
       IN /\ nextTextureHandle' = new.next
          /\ textureMap' = MapSet(textureMap, new.handle, texture)
          /\ handlesReturned' = Append(handlesReturned, new.handle)
    /\ UNCHANGED <<gpuVars,
                   domVars, hostVars, fileVars, evVars, tickVars, mem, glReady,
                   currentTexture, currentTexturePixelFormat, deletedTextures,
                   destroyLog>>

\* function webgl_destroy_texture(handle)
WebglDestroyTexture(handle) ==
    /\ GuestRunning
    /\ glReady
    /\ IF handle \in DOMAIN textureMap
       THEN /\ deletedTextures' = deletedTextures \cup {textureMap[handle]}
            /\ textureMap' = MapDelete(textureMap, handle)
            /\ destroyLog' = destroyLog \cup {<<handle, Len(handlesReturned)>>}
       ELSE UNCHANGED <<deletedTextures, textureMap, destroyLog>>
    /\ UNCHANGED <<gpuVars,
                   domVars, hostVars, fileVars, evVars, tickVars, mem, glReady,
                   nextTextureHandle, currentTexture, currentTexturePixelFormat,
                   handlesReturned>>

\* function webgl_set_texture(handle, pixel_format)
WebglSetTexture(handle, pixel_format) ==
    /\ GuestRunning
    /\ glReady
    /\ IF handle # 0
       THEN IF handle \in DOMAIN textureMap
            THEN /\ currentTexture' = textureMap[handle]
                 /\ currentTexturePixelFormat' = pixel_format
            ELSE UNCHANGED <<currentTexture, currentTexturePixelFormat>>
       ELSE /\ currentTexture' = 0
            /\ UNCHANGED currentTexturePixelFormat
    /\ UNCHANGED <<gpuVars,
                   domVars, hostVars, fileVars, evVars, tickVars, mem, glReady,
                   textureMap, nextTextureHandle, deletedTextures,
                   handlesReturned, destroyLog>>

\* ------------------------------------------- memory growth, matrices, draw
\* The guest may call an import, or grow its memory, during any of its calls.
GuestInCall ==
    pc \in {"in_main", "in_frame", "in_get_event_buffer", "in_set_event_count"}

\* function js_memory_grow(new_byte_length): mem.grow(pages) detaches the
\* ArrayBuffer that was exports.memory.buffer and makes a new one with the
\* same contents (as does the guest's own memory.grow instruction).
JsMemoryGrow ==
    /\ GuestInCall
    /\ memBuffer' = memBuffer + 1
    /\ UNCHANGED <<callBuffer, viewUse, matProj, matModel, programInfo, uniforms,
                   domVars, hostVars, fileVars, evVars, tickVars, texVars, mem>>

\* The guest stores a matrix in its memory.
GuestWritesMatrix(mat, d) ==
    /\ GuestRunning
    /\ mem' = [a \in DOMAIN mem |->
                IF a >= mat /\ a < mat + MatBytes
                THEN Diagonal(d)[a - mat + 1] ELSE mem[a]]
    /\ UNCHANGED <<gpuVars, domVars, hostVars, fileVars, evVars, tickVars, texVars>>

\* function float32_array_by_ptr(ptr, count): a view of the current buffer
\* (count floats, here their bytes).
float32_array_by_ptr(ptr, count) ==
    [buffer |-> memBuffer, ptr |-> ptr,
     data |-> [i \in 1..(4 * count) |-> mem[ptr + i - 1]]]

\* new Float32Array(source): a copy of the elements in a buffer of its own.
NewFloat32Array(source) ==
    [buffer |-> OwnBuffer, ptr |-> 0, data |-> source.data]

\* function webgl_set_matrix_projection(mat)
WebglSetMatrixProjection(mat) ==
    /\ GuestRunning
    /\ \E source \in {float32_array_by_ptr(mat, 16)} :
        /\ matProj' = NewFloat32Array(source)
        /\ viewUse' = [fn |-> "webgl_set_matrix_projection",
                       viewBuffer |-> source.buffer, buffer |-> memBuffer]
    /\ UNCHANGED <<memBuffer, callBuffer, matModel, programInfo, uniforms,
                   domVars, hostVars, fileVars, evVars, tickVars, texVars, mem>>

\* function webgl_set_matrix_model(mat)
WebglSetMatrixModel(mat) ==
    /\ GuestRunning
    /\ \E source \in {float32_array_by_ptr(mat, 16)} :
        /\ matModel' = NewFloat32Array(source)
        /\ viewUse' = [fn |-> "webgl_set_matrix_model",
                       viewBuffer |-> source.buffer, buffer |-> memBuffer]
    /\ UNCHANGED <<memBuffer, callBuffer, matProj, programInfo, uniforms,
                   domVars, hostVars, fileVars, evVars, tickVars, texVars, mem>>

\* function webgl_init(): compiles the shaders and sets programInfo.
WebglInit ==
    /\ GuestRunning
    /\ glReady
    /\ programInfo' = TRUE
    /\ UNCHANGED <<memBuffer, callBuffer, viewUse, matProj, matModel, uniforms,
                   domVars, hostVars, fileVars, evVars, tickVars, texVars, mem>>

\* The elements uniformMatrix4fv reads from a typed array: its own, or, of a
\* view, those of guest memory now, none if its buffer is detached.
MatrixValue(m) ==
    IF m.buffer = OwnBuffer THEN m.data
    ELSE IF m.buffer = memBuffer
         THEN [i \in 1..MatBytes |-> mem[m.ptr + i - 1]]
         ELSE <<>>

\* gl.uniformMatrix4fv(proj, matProj), (model, matModel),
\* gl.uniform1i(useTexture, currentTexture !== null ? 1 : 0),
\* gl.uniform1i(isText, currentTexturePixelFormat === PixelFormat.ALPHA ? 1 : 0)
DrawUniforms ==
    [drawn |-> TRUE,
     proj |-> MatrixValue(matProj),
     model |-> MatrixValue(matModel),
     useTexture |-> IF currentTexture # 0 THEN 1 ELSE 0,
     isText |-> IF currentTexturePixelFormat = PixelFormat.ALPHA THEN 1 ELSE 0]

\* function webgl_draw_vertex_buffer(count, vert_data, ...): the vertex data
\* goes to a GL buffer through a view made for this call, the uniforms are
\* set and the triangles drawn.
WebglDrawVertexBuffer(count, vert_data, vert_stride) ==
    /\ GuestRunning
    /\ glReady
    /\ programInfo
    /\ \E vertices \in {float32_array_by_ptr(vert_data, (count * vert_stride) \div 4)} :
        viewUse' = [fn |-> "webgl_draw_vertex_buffer",
                    viewBuffer |-> vertices.buffer, buffer |-> memBuffer]
    /\ uniforms' = DrawUniforms
    /\ UNCHANGED <<memBuffer, callBuffer, matProj, matModel, programInfo,
                   domVars, hostVars, fileVars, evVars, tickVars, texVars, mem>>

\* ------------------------------------------------------------ DOM listeners
\* JavaScript's a < b on strings: code units compared from the left, a proper
\* prefix being the smaller.
StrLess(a, b) ==
    \E i \in 1..(Min(Len(a), Len(b)) + 1) :
        /\ \A j \in 1..(i - 1) : a[j] = b[j]
        /\ IF i > Len(a) THEN i <= Len(b)
           ELSE i <= Len(b) /\ a[i] < b[i]

StrLeq(a, b) == a = b \/ StrLess(a, b)

\* The KeyboardEvent.key strings mapKeyToOSKey's switch names, as UTF-16 code
\* units (Space is ' ').
KeyName ==
    [Control |-> <<67, 111, 110, 116, 114, 111, 108>>,
     Shift |-> <<83, 104, 105, 102, 116>>,
     Alt |-> <<65, 108, 116>>,
     Meta |-> <<77, 101, 116, 97>>,
     Tab |-> <<84, 97, 98>>,
     CapsLock |-> <<67, 97, 112, 115, 76, 111, 99, 107>>,
     Backspace |-> <<66, 97, 99, 107, 115, 112, 97, 99, 101>>,
     Delete |-> <<68, 101, 108, 101, 116, 101>>,
     Enter |-> <<69, 110, 116, 101, 114>>,
     Escape |-> <<69, 115, 99, 97, 112, 101>>,
     Space |-> <<32>>,
     ArrowUp |-> <<65, 114, 114, 111, 119, 85, 112>>,
     ArrowRight |-> <<65, 114, 114, 111, 119, 82, 105, 103, 104, 116>>,
     ArrowDown |-> <<65, 114, 114, 111, 119, 68, 111, 119, 110>>,
     ArrowLeft |-> <<65, 114, 114, 111, 119, 76, 101, 102, 116>>,
     Home |-> <<72, 111, 109, 101>>,
     End |-> <<69, 110, 100>>,
     F1 |-> <<70, 49>>,
     F2 |-> <<70, 50>>,
     F3 |-> <<70, 51>>,
     F4 |-> <<70, 52>>,
     F5 |-> <<70, 53>>,
     F6 |-> <<70, 54>>,
     F7 |-> <<70, 55>>,
     F8 |-> <<70, 56>>,
     F9 |-> <<70, 57>>,
     F10 |-> <<70, 49, 48>>,
     F11 |-> <<70, 49, 49>>,
     F12 |-> <<70, 49, 50>>]

\* mapKeyToOSKey returning an upper-case letter's own character code.
mapKeyToOSKey_NoLowerCase(event) ==
    LET key == event.key
    IN IF Len(key) = 1 /\ key[1] >= 48 /\ key[1] <= 122 THEN key[1]
       ELSE IF key = KeyName.Enter THEN OS_Key.RETURN
       ELSE OS_Key.UNKNOWN

\* function mapKeyToOSKey(event): digits and letters by their character code
\* (letters lower-cased), the named keys by the switch, anything else UNKNOWN.
mapKeyToOSKey(event) ==
    LET key == event.key
    IN IF StrLeq(<<48>>, key) /\ StrLeq(key, <<57>>)
       THEN key[1]
       ELSE IF Len(key) = 1 /\ StrLeq(<<65>>, key) /\ StrLeq(key, <<90>>)
       THEN key[1] + 32
       ELSE IF Len(key) = 1 /\ StrLeq(<<97>>, key) /\ StrLeq(key, <<122>>)
       THEN key[1]
       ELSE CASE key = KeyName.Control ->
                    IF event.location = 1 THEN OS_Key.LCONTROL ELSE OS_Key.RCONTROL
              [] key = KeyName.Shift ->
                    IF event.location = 1 THEN OS_Key.LSHIFT ELSE OS_Key.RSHIFT
              [] key = KeyName.Alt ->
                    IF event.location = 1 THEN OS_Key.LALT ELSE OS_Key.RALT
              [] key = KeyName.Meta -> OS_Key.META
              [] key = KeyName.Tab -> OS_Key.TAB
              [] key = KeyName.CapsLock -> OS_Key.CAPS
              [] key = KeyName.Backspace -> OS_Key.BACKSPACE
              [] key = KeyName.Delete -> OS_Key.DELETE
              [] key = KeyName.Enter -> OS_Key.RETURN
              [] key = KeyName.Escape -> OS_Key.ESCAPE
              [] key = KeyName.Space -> OS_Key.SPACE
              [] key = KeyName.ArrowUp -> OS_Key.UP
              [] key = KeyName.ArrowRight -> OS_Key.RIGHT
              [] key = KeyName.ArrowDown -> OS_Key.DOWN
              [] key = KeyName.ArrowLeft -> OS_Key.LEFT
              [] key = KeyName.Home -> OS_Key.HOME
              [] key = KeyName.End -> OS_Key.END
              [] key = KeyName.F1 -> OS_Key.F1
              [] key = KeyName.F2 -> OS_Key.F2
              [] key = KeyName.F3 -> OS_Key.F3
              [] key = KeyName.F4 -> OS_Key.F4
              [] key = KeyName.F5 -> OS_Key.F5
              [] key = KeyName.F6 -> OS_Key.F6
              [] key = KeyName.F7 -> OS_Key.F7
              [] key = KeyName.F8 -> OS_Key.F8
              [] key = KeyName.F9 -> OS_Key.F9
              [] key = KeyName.F10 -> OS_Key.F10
              [] key = KeyName.F11 -> OS_Key.F11
              [] key = KeyName.F12 -> OS_Key.F12
              [] OTHER -> OS_Key.UNKNOWN

\* getMousePos flooring the viewport coordinates as they are.
getMousePos_Viewport(event, rect) ==
    [x |-> event.clientX2 \div 2, y |-> event.clientY2 \div 2]

\* Lengths are in half pixels (clientX and the bounding box may be
\* fractional), so that Math.floor has something to discard.
\* function getMousePos(event), with rect = canvas.getBoundingClientRect()
getMousePos(event, rect) ==
    [x |-> (event.clientX2 - rect.left2) \div 2,
     y |-> (event.clientY2 - rect.top2) \div 2]

\* function mapMouseButtonToOSKey(button)
mapMouseButtonToOSKey(button) ==
    CASE button = 0 -> OS_Key.MOUSE_L
      [] button = 1 -> OS_Key.MOUSE_M
      [] button = 2 -> OS_Key.MOUSE_R
      [] OTHER -> OS_Key.UNKNOWN

\* Math.sign
Sign(n) == IF n > 0 THEN 1 ELSE IF n < 0 THEN -1 ELSE 0

\* A listener runs only when no other script does, and only once registered.
ListenerMayRun == listeners /\ pc = "idle"

\* The browser dispatches a DOM event of this type to its listener.
Dispatched(type, event, rect) ==
    domEvent' = [type |-> type, event |-> event, rect |-> rect]

NoPush == UNCHANGED <<eventQueue, pushCount, eventIds, pushMeta>>

ListenerFrame ==
    UNCHANGED <<gpuVars,
                canvasSize, originalSize, fullscreen, fsRequest, hostVars,
                fileVars, eventBufferPtr, setCountArg, stores, serialized,
                tickVars, texVars, mem>>

\* The keyboard listener without the osKey !== OS_Key.UNKNOWN test.
KeyListener_NoFilter(type, event, pressed) ==
    /\ ListenerMayRun
    /\ Dispatched(type, event, NoRect)
    /\ pushEvent(OS_Window_Event_Type.KEYBOARD, 0, 0, pressed, mapKeyToOSKey(event))
    /\ ListenerFrame

\* window.addEventListener('keydown' | 'keyup', ...): the two listeners
\* differ in the pressed value only.
KeyListener(type, event, pressed) ==
    /\ ListenerMayRun
    /\ Dispatched(type, event, NoRect)
    /\ LET osKey == mapKeyToOSKey(event)
       IN IF osKey # OS_Key.UNKNOWN
          THEN pushEvent(OS_Window_Event_Type.KEYBOARD, 0, 0, pressed, osKey)
          ELSE NoPush
    /\ ListenerFrame

\* window.addEventListener('keydown', ...)
KeyDown(event) == KeyListener("keydown", event, 1)

\* window.addEventListener('keyup', ...)
KeyUp(event) == KeyListener("keyup", event, 0)

\* canvas.addEventListener('mousedown', ...)
MouseDown(event, rect) ==
    /\ ListenerMayRun
    /\ Dispatched("mousedown", event, rect)
    /\ LET pos == getMousePos(event, rect)
           osKey == mapMouseButtonToOSKey(event.button)
       IN pushEvent(OS_Window_Event_Type.MOUSE_BUTTON, pos.x, pos.y, 1, osKey)
    /\ ListenerFrame

\* canvas.addEventListener('mouseup', ...)
MouseUp(event, rect) ==
    /\ ListenerMayRun
    /\ Dispatched("mouseup", event, rect)
    /\ LET pos == getMousePos(event, rect)
           osKey == mapMouseButtonToOSKey(event.button)
       IN pushEvent(OS_Window_Event_Type.MOUSE_BUTTON, pos.x, pos.y, 0, osKey)
    /\ ListenerFrame

\* canvas.addEventListener('mousemove', ...)
MouseMove(event, rect) ==
    /\ ListenerMayRun
    /\ Dispatched("mousemove", event, rect)
    /\ LET pos == getMousePos(event, rect)
       IN pushEvent(OS_Window_Event_Type.MOUSE_MOVE, pos.x, pos.y, 0, 0)
    /\ ListenerFrame

\* The wheel listener passing the sign on as it is.
Wheel_NotInverted(event) ==
    /\ ListenerMayRun
    /\ Dispatched("wheel", event, NoRect)
    /\ pushEvent(OS_Window_Event_Type.MOUSE_SCROLL,
                 Sign(event.deltaX), Sign(event.deltaY), 0, 0)
    /\ ListenerFrame

\* canvas.addEventListener('wheel', ...)
Wheel(event) ==
    /\ ListenerMayRun
    /\ Dispatched("wheel", event, NoRect)
    /\ LET scrollDirectionY == -Sign(event.deltaY)
           scrollDirectionX == -Sign(event.deltaX)
       IN pushEvent(OS_Window_Event_Type.MOUSE_SCROLL,
                    scrollDirectionX, scrollDirectionY, 0, 0)
    /\ ListenerFrame

FullscreenFrame ==
    UNCHANGED <<gpuVars,
                hostVars, fileVars, eventBufferPtr, setCountArg, stores,
                serialized, tickVars, texVars, mem>>

\* fullscreenBtn's click listener, toggleFullscreen(): out of fullscreen it
\* remembers the canvas size and asks for fullscreen, in fullscreen it asks
\* to leave it.
ToggleFullscreen ==
    /\ ListenerMayRun
    /\ Dispatched("click", <<>>, NoRect)
    /\ IF ~fullscreen
       THEN /\ originalSize' = canvasSize
            /\ fsRequest' = "enter"
       ELSE /\ fsRequest' = "exit"
            /\ UNCHANGED originalSize
    /\ NoPush
    /\ UNCHANGED <<canvasSize, fullscreen>>
    /\ FullscreenFrame

\* requestFullscreen's promise rejects; the catch handler logs the error.
FullscreenDenied ==
    /\ ListenerMayRun
    /\ fsRequest = "enter"
    /\ fsRequest' = "none"
    /\ UNCHANGED <<gpuVars,
                   domEvent, canvasSize, originalSize, fullscreen, hostVars,
                   fileVars, evVars, tickVars, texVars, mem>>

\* The canvas size handleFullscreenChange computes for the screen: the
\* largest size of the original aspect ratio that fits. The ratios the
\* model's sizes give are powers of two, for which the double arithmetic of
\* originalWidth / originalHeight and of the two Math.floor arguments is exact.
FullscreenSize(original, screen) ==
    IF original.width * screen.height > screen.width * original.height
    THEN [width |-> screen.width,
          height |-> (screen.width * original.height) \div original.width]
    ELSE [width |-> (screen.height * original.width) \div original.height,
          height |-> screen.height]

\* function handleFullscreenChange(), run on a fullscreenchange event: the
\* container has entered fullscreen (as toggleFullscreen asked), or has left
\* it (asked for, or by the user's Escape key). screen is window.innerWidth
\* and innerHeight.
FullscreenChange(screen) ==
    /\ ListenerMayRun
    /\ fullscreen \/ fsRequest = "enter"
    /\ Dispatched("fullscreenchange", screen, NoRect)
    /\ fullscreen' = ~fullscreen
    /\ fsRequest' = "none"
    /\ IF ~fullscreen
       THEN \E new \in {FullscreenSize(originalSize, screen)} :
                /\ canvasSize' = new
                /\ pushEvent(OS_Window_Event_Type.RESIZE, new.width, new.height, 0, 0)
       ELSE /\ canvasSize' = originalSize
            /\ pushEvent(OS_Window_Event_Type.RESIZE,
                         originalSize.width, originalSize.height, 0, 0)
    /\ UNCHANGED originalSize
    /\ FullscreenFrame

\* ------------------------------------------------------------- DOM inputs
\* The canvas's bounding box: left = 8, top = 1.5.
CanvasRects == {[left2 |-> 16, top2 |-> 3]}
\* A pointer at (10.5, 6): two such moves in one frame are the same record.
MoveEvents == {[clientX2 |-> 21, clientY2 |-> 12, button |-> 0]}
\* A press of the left button at (300, 4).
DownEvents == {[clientX2 |-> 600, clientY2 |-> 8, button |-> 0]}
\* A wheel notch down.
WheelEvents == {[deltaX |-> 0, deltaY |-> 120]}

\* The n-th event of a scripted burst: the pointer drags to the right, 3
\* pixels an event, while the wheel turns and buttons are pressed.
SweepEvent(n) == [clientX2 |-> 16 + 6 * n, clientY2 |-> 12, button |-> n % 4]
SweepWheel(n) == [deltaX |-> (n % 5) - 2, deltaY |-> 120 * ((n % 7) - 3)]

\* The listeners of Spec: at most MaxQueue events are captured per frame.
SomeMouseMove ==
    /\ Len(eventQueue) < MaxQueue
    /\ \E e \in MoveEvents, r \in CanvasRects : MouseMove(e, r)

SomeMouseDown ==
    /\ Len(eventQueue) < MaxQueue
    /\ \E e \in DownEvents, r \in CanvasRects : MouseDown(e, r)

SomeWheel ==
    /\ Len(eventQueue) < MaxQueue
    /\ \E e \in WheelEvents : Wheel(e)

\* A burst of at most MaxBurst events captured before the first frame runs:
\* moves, wheel turns and button presses in turn.
SweepMove ==
    /\ ticks = 0
    /\ pushCount < MaxBurst
    /\ LET n == pushCount + 1
       IN \E r \in CanvasRects :
            CASE n % 3 = 1 -> MouseMove(SweepEvent(n), r)
              [] n % 3 = 2 -> Wheel(SweepWheel(n))
              [] OTHER -> MouseDown(SweepEvent(n), r)

\* Ordinary capture once the first frame has run.
LateMouseMove == ticks > 0 /\ SomeMouseMove

\* ------------------------------------------------------ specifications
\* The browser runs at most MaxTicks animation-frame callbacks.
Tick == ticks < MaxTicks /\ GameLoopEnter

StartUp ==
    \/ InitStart
    \/ \E p \in PreloadPaths, o \in {"reading", "http_error", "net_error"} :
            FetchResponds(p, o)
    \/ \E p \in PreloadPaths, b \in FileContents : BodyArrives(p, b)
    \/ \E p \in PreloadPaths : BodyFails(p)
    \/ PreloadDone
    \/ WasmFetched
    \/ InitRejects
    \/ \E f \in BOOLEAN : Instantiated(f)
    \/ MainReturns
    \/ MainTraps

FrameLoop ==
    \/ Tick
    \/ \E ptr \in EventBufPtrs : GetEventBufferReturns(ptr)
    \/ SetEventCountReturns
    \/ FrameReturns
    \/ FrameTraps

\* Start-up, the frame loop and the listeners.
Next == StartUp \/ FrameLoop \/ SomeMouseMove \/ SomeMouseDown \/ SomeWheel

Spec == Init /\ [][Next]_vars

\* A start-up in which the font is missing and the guest exports wasm_frame.
PlainStartUp ==
    \/ InitStart
    \/ \E p \in PreloadPaths : FetchResponds(p, "http_error")
    \/ PreloadDone
    \/ WasmFetched
    \/ Instantiated(TRUE)
    \/ MainReturns

\* The overflow specification: a long burst of input, then ordinary capture.
NextBurst ==
    \/ PlainStartUp
    \/ Tick
    \/ GetEventBufferReturns(12)
    \/ SetEventCountReturns
    \/ FrameReturns
    \/ SweepMove
    \/ LateMouseMove

SpecBurst == Init /\ [][NextBurst]_vars

\* ---------------------------------------------------- texture specification
\* Handles the guest passes: 0 unbinds, MaxTextures + 1 is never created.
GuestHandles == 0..(MaxTextures + 1)
GuestPixelFormats == {PixelFormat.RGBA, PixelFormat.ALPHA}

CreateTexture == nextTextureHandle <= MaxTextures /\ WebglCreateTexture

\* Sizes the guest gives its canvas.
GuestCanvasSizes == {[width |-> 64, height |-> 64]}

CreateCanvas == \E size \in GuestCanvasSizes : JsCreateCanvas(size.width, size.height)

TextureCalls ==
    \/ CreateCanvas
    \/ CreateTexture
    \/ \E h \in GuestHandles \ {0} : WebglDestroyTexture(h)
    \/ \E h \in GuestHandles, f \in GuestPixelFormats : WebglSetTexture(h, f)
    \/ WebglInit
    \/ WebglDrawVertexBuffer(1, MatPtr, 16)

NextTex ==
    \/ PlainStartUp
    \/ MainTraps
    \/ Tick
    \/ FrameReturns
    \/ FrameTraps
    \/ TextureCalls

SpecTex == Init /\ [][NextTex]_vars

\* ------------------------------------------------ file-system specification
\* The guest names the font by its full path, or cuts the path short.
GuestPathLens == {Len(FontPath), Len(FontPath) - 1}
\* max_size: nothing, less than the file, the whole buffer, and 0xFFFFFFFF,
\* which reaches the host as the i32 -1.
GuestMaxSizes == {0, 2, DestBytes, -1}

GetFileSize ==
    /\ lastCall.n < MaxCalls
    /\ \E len \in GuestPathLens : JsGetFileSize(PathPtr, len)

CopyFile ==
    /\ lastCall.n < MaxCalls
    /\ \E len \in GuestPathLens, max \in GuestMaxSizes :
            JsCopyFileToWasm(PathPtr, len, DestPtr, max)

NextFiles ==
    \/ StartUp
    \/ Tick
    \/ FrameReturns
    \/ GetFileSize
    \/ CopyFile

SpecFiles == Init /\ [][NextFiles]_vars

\* ----------------------------------------------- the memory specification
\* The guest grows its memory at most MaxGrows times, inside any of its calls.
GrowMemory == memBuffer < MaxGrows /\ JsMemoryGrow

\* The matrices the guest stores: the identity and twice the identity.
GuestDiagonals == {FloatOne, FloatTwo}

WriteMatrix == \E d \in GuestDiagonals : GuestWritesMatrix(MatPtr, d)

\* The guest of this specification sets up its canvas, its shaders and its
\* projection in main, and sets the model matrix and draws in wasm_frame.
InMain(call) == pc = "in_main" /\ call
InFrame(call) == pc = "in_frame" /\ call

\* One vertex of 16 bytes, kept where the guest keeps its matrix.
Draw == WebglDrawVertexBuffer(1, MatPtr, 16)

\* Input captured before the first frame.
EarlyMouseMove == ticks = 0 /\ SomeMouseMove

NextMem ==
    \/ PlainStartUp
    \/ Tick
    \/ GetEventBufferReturns(12)
    \/ SetEventCountReturns
    \/ FrameReturns
    \/ EarlyMouseMove
    \/ GrowMemory
    \/ WriteMatrix
    \/ InMain(WebglSetMatrixProjection(MatPtr))
    \/ InFrame(WebglSetMatrixModel(MatPtr))
    \/ InMain(CreateCanvas)
    \/ InMain(WebglInit)
    \/ InFrame(Draw)

SpecMem == Init /\ [][NextMem]_vars

\* ------------------------------------------------- the input specification
\* Keys pressed: 'a', 'Z', '5', ';', 'é', left and right Control, Shift (with
\* no location), 'Enter', ' ', 'F5', and 'PageUp' and 'Unidentified', which
\* the switch does not name.
KeyEvents ==
    {[key |-> <<97>>, location |-> 0],
     [key |-> <<90>>, location |-> 0],
     [key |-> <<53>>, location |-> 0],
     [key |-> <<59>>, location |-> 0],
     [key |-> <<233>>, location |-> 0],
     [key |-> <<67, 111, 110, 116, 114, 111, 108>>, location |-> 1],
     [key |-> <<67, 111, 110, 116, 114, 111, 108>>, location |-> 2],
     [key |-> <<83, 104, 105, 102, 116>>, location |-> 0],
     [key |-> <<69, 110, 116, 101, 114>>, location |-> 0],
     [key |-> <<32>>, location |-> 0],
     [key |-> <<70, 53>>, location |-> 0],
     [key |-> <<80, 97, 103, 101, 85, 112>>, location |-> 0],
     [key |-> <<85, 110, 105, 100, 101, 110, 116, 105, 102, 105, 101, 100>>, location |-> 0]}

\* Bounding boxes of the canvas: at (8, 1.5), and scrolled to (-20.5, 100).
InputRects == {[left2 |-> 16, top2 |-> 3], [left2 |-> -41, top2 |-> 200]}
\* The pointer's offset from the canvas's corner: none, and (300.5, 9.5).
InputOffsets == {[dx2 |-> 0, dy2 |-> 0], [dx2 |-> 601, dy2 |-> 19]}
\* MouseEvent.button: left, right, and the back button.
InputButtons == {0, 2, 3}
\* Wheel deltas: a notch down, a diagonal swipe, and a tilt left.
InputWheels ==
    {[deltaX |-> 0, deltaY |-> 120], [deltaX |-> 100, deltaY |-> -100],
     [deltaX |-> -3, deltaY |-> 0]}
\* window.innerWidth and innerHeight of the screens.
InputScreens == {[width |-> 1920, height |-> 1080], [width |-> 2560, height |-> 1080]}

PointerAt(r, o, b) ==
    [clientX2 |-> r.left2 + o.dx2, clientY2 |-> r.top2 + o.dy2, button |-> b]

\* Keys, buttons, pointer and wheel are exercised before the first frame
\* runs; the fullscreen button and its events at any time.
InputRoom == Len(eventQueue) < MaxInputQueue
EarlyRoom == ticks = 0 /\ InputRoom

InKeyDown == EarlyRoom /\ \E e \in KeyEvents : KeyDown(e)
InKeyUp == EarlyRoom /\ \E e \in KeyEvents : KeyUp(e)
InMouseDown ==
    /\ EarlyRoom
    /\ \E r \in InputRects, o \in InputOffsets, b \in InputButtons :
            MouseDown(PointerAt(r, o, b), r)
InMouseUp ==
    /\ EarlyRoom
    /\ \E r \in InputRects, o \in InputOffsets, b \in InputButtons :
            MouseUp(PointerAt(r, o, b), r)
InMouseMove ==
    /\ EarlyRoom
    /\ \E r \in InputRects, o \in InputOffsets : MouseMove(PointerAt(r, o, 0), r)
InWheel == EarlyRoom /\ \E e \in InputWheels : Wheel(e)
InFullscreenChange == InputRoom /\ \E screen \in InputScreens : FullscreenChange(screen)
InToggleFullscreen == InputRoom /\ ToggleFullscreen
InFullscreenDenied == InputRoom /\ FullscreenDenied

NextInput ==
    \/ PlainStartUp
    \/ Tick
    \/ GetEventBufferReturns(12)
    \/ SetEventCountReturns
    \/ FrameReturns
    \/ InKeyDown
    \/ InKeyUp
    \/ InMouseDown
    \/ InMouseUp
    \/ InMouseMove
    \/ InWheel
    \/ InToggleFullscreen
    \/ InFullscreenDenied
    \/ InFullscreenChange

SpecInput == Init /\ [][NextInput]_vars

\* ================================================================== claims
\* The guest's reading of one OS_Window_Event at addr: five little-endian
\* i32 fields, type, x, y, pressed, key.
DecodeEvent(view, addr) ==
    [type    |-> getInt32(view, addr + 0, TRUE),
     x       |-> getInt32(view, addr + 4, TRUE),
     y       |-> getInt32(view, addr + 8, TRUE),
     pressed |-> getInt32(view, addr + 12, TRUE),
     key     |-> getInt32(view, addr + 16, TRUE)]

\* writeEventsToWASM has just stored the records and passed the count on.
JustFlushed == pc = "in_set_event_count"

\* C1: when a tick finds N <= 128 queued events, writeEventsToWASM makes
\* 5 * N stores that fill N consecutive 20-byte records from the address
\* wasm_get_event_buffer returned, reports N, and record i decodes, field for
\* field, to the i-th event pushed since the last tick, in capture order.
C1_RoundTrip ==
    (JustFlushed /\ Len(eventQueue) <= MAX_EVENTS_PER_FRAME) =>
        /\ setCountArg = Len(eventQueue)
        /\ Len(stores) = 5 * Len(eventQueue)
        /\ \A k \in 1..Len(stores) : stores[k] = eventBufferPtr + 4 * (k - 1)
        /\ \A i \in 1..Len(eventQueue) :
            DecodeEvent(mem, eventBufferPtr + (i - 1) * bytesPerEvent) = eventQueue[i]

\* C1 witness: a full frame of 128 events, with a negative field among them,
\* whose last record decodes to the 128th event pushed.
C1_Witness ==
    /\ JustFlushed
    /\ Len(eventQueue) = MAX_EVENTS_PER_FRAME
    /\ \E i \in 1..Len(eventQueue) : eventQueue[i].y < 0
    /\ eventQueue[1] # eventQueue[4]
    /\ DecodeEvent(mem, eventBufferPtr + 127 * bytesPerEvent) = eventQueue[128]

\* C2: the count given to wasm_set_event_count is always in 1..128, every
\* store of a flush lies inside the 128 records of the event buffer and the
\* guest's memory after the buffer is as instantiation left it; a tick that
\* finds more than 128 events stores exactly the first 128, in capture order,
\* and reports 128.
C2_Truncation ==
    /\ setCountArg = -1 \/ setCountArg \in 1..MAX_EVENTS_PER_FRAME
    /\ \A k \in 1..Len(stores) :
        /\ stores[k] >= eventBufferPtr
        /\ stores[k] + 4 <= eventBufferPtr + MAX_EVENTS_PER_FRAME * bytesPerEvent
    /\ wasm = "instance" =>
        \A a \in Addrs :
            a >= 12 + MAX_EVENTS_PER_FRAME * bytesPerEvent => mem[a] = GuestImage[a]
    /\ (JustFlushed /\ Len(eventQueue) > MAX_EVENTS_PER_FRAME) =>
        /\ setCountArg = MAX_EVENTS_PER_FRAME
        /\ Len(stores) = 5 * MAX_EVENTS_PER_FRAME
        /\ \A i \in 1..MAX_EVENTS_PER_FRAME :
            DecodeEvent(mem, eventBufferPtr + (i - 1) * bytesPerEvent) = eventQueue[i]

\* C2 witness: a tick that found more than 128 events and reported 128.
C2_Witness ==
    /\ JustFlushed
    /\ Len(eventQueue) > MAX_EVENTS_PER_FRAME
    /\ setCountArg = MAX_EVENTS_PER_FRAME

\* C3: every execution of gameLoop ends with eventQueue empty: whenever
\* gameLoop has run and is not running, every queued event was pushed after
\* the last tick, whether that tick flushed or not and whether or not the
\* guest exports wasm_frame.
C3_EveryGameLoopEndsEmpty ==
    (pc = "idle" /\ ticks > 0) =>
        \A i \in 1..Len(eventIds) : pushMeta[eventIds[i]].tick = ticks

\* C4: an event is written to guest memory only in the tick that follows its
\* push, so in at most one tick, and only if it was among the first 128 of
\* the queue: an event beyond the 128th is never written, then or later.
C4_NoCarryOver ==
    \A s \in serialized :
        /\ s[2] = pushMeta[s[1]].tick + 1
        /\ pushMeta[s[1]].pos <= MAX_EVENTS_PER_FRAME

\* C4 witness: the second tick has flushed its own events; the 129th event of
\* the first frame was written in neither.
C4_Witness ==
    /\ JustFlushed /\ ticks = 2
    /\ pushCount > MAX_EVENTS_PER_FRAME + 1
    /\ pushMeta[MAX_EVENTS_PER_FRAME + 1].pos = MAX_EVENTS_PER_FRAME + 1
    /\ \A t \in 1..2 : <<MAX_EVENTS_PER_FRAME + 1, t>> \notin serialized
    /\ \E s \in serialized : s[2] = 2

\* The steps of a tick that flushes, and of one that finds the queue empty.
FlushingTick ==
    <<"wasm_get_event_buffer", "write", "wasm_set_event_count", "wasm_frame",
      "clearEventQueue", "requestAnimationFrame">>
PlainTick == <<"wasm_frame", "clearEventQueue", "requestAnimationFrame">>

IsPrefix(s, t) == Len(s) <= Len(t) /\ s = SubSeq(t, 1, Len(s))

\* The steps of the tick, without the exception that may have ended it.
StepsTaken ==
    IF log # <<>> /\ log[Len(log)] = "throw" THEN SubSeq(log, 1, Len(log) - 1) ELSE log

\* C5: the steps of every tick are, in this order, wasm_get_event_buffer, the
\* record writes, wasm_set_event_count, wasm_frame, clearEventQueue,
\* requestAnimationFrame, the first three present exactly when the queue was
\* non-empty as the tick began (and wasm_frame only if the guest exports it).
C5_StepOrder ==
    /\ IF ~hasFrame
       THEN log \in {<<>>, <<"clearEventQueue", "requestAnimationFrame">>}
       ELSE IF tickLen > 0
            THEN IsPrefix(StepsTaken, FlushingTick)
            ELSE IsPrefix(StepsTaken, PlainTick)
    /\ (pc = "idle" /\ ticks > 0 /\ hasFrame /\ StepsTaken = log) =>
        log = IF tickLen > 0 THEN FlushingTick ELSE PlainTick
    /\ pc = "in_get_event_buffer" => log = <<"wasm_get_event_buffer">>
    /\ pc = "in_set_event_count" => log = SubSeq(FlushingTick, 1, 3)
    /\ pc = "in_frame" => log[Len(log)] = "wasm_frame"

\* C5 witness: a flushing tick has run to its end.
C5_Witness == log = FlushingTick /\ tickLen > 0 /\ pc = "idle"

GameLoopPcs == {"in_get_event_buffer", "in_set_event_count", "in_frame"}

\* C6: wasm_main is invoked at most once, only when every preload fetch has
\* settled and the module is instantiated; and no listener is registered, no
\* event is pushed, no frame is scheduled and no tick runs unless wasm_main
\* was invoked exactly once and has returned.
C6_StartOnce ==
    /\ mainCalls <= 1
    /\ mainCalls = 1 =>
        /\ \A p \in PreloadPaths : Settled(fetchState[p])
        /\ wasm = "instance"
    /\ (listeners \/ rafPending \/ pushCount > 0 \/ ticks > 0 \/ pc \in GameLoopPcs) =>
        /\ mainCalls = 1
        /\ pc \in GameLoopPcs \cup {"idle"}
        /\ listeners

\* C6 witness: the first wasm_frame runs, after an event was pushed.
C6_Witness == pc = "in_frame" /\ ticks = 1 /\ mainCalls = 1 /\ pushCount > 0

\* C7: once the frame loop has started it never stops: whenever no script
\* runs, a next animation-frame callback is scheduled, whatever the guest
\* did during the frame.
C7_LoopNeverStops == (listeners /\ pc = "idle") => rafPending

\* C8: the first handle webgl_create_texture returns is 1, each later one is
\* greater than every handle returned before it, and no create that follows
\* the destruction of handle K returns K.
C8_HandlesNeverReused ==
    /\ handlesReturned # <<>> => handlesReturned[1] = 1
    /\ \A i, j \in 1..Len(handlesReturned) :
        i < j => handlesReturned[i] < handlesReturned[j]
    /\ \A d \in destroyLog :
        \A j \in (d[2] + 1)..Len(handlesReturned) : handlesReturned[j] # d[1]

\* C8 witness: a handle was destroyed and two textures were created after.
C8_Witness ==
    \E d \in destroyLog :
        /\ Len(handlesReturned) >= d[2] + 2
        /\ d[1] \notin DOMAIN textureMap

\* C9: a js_get_file_size or js_copy_file_to_wasm call that names a path
\* absent from preloadedFiles returns 0, writes no byte of guest memory and
\* leaves the store as it was.
C9_MissingPathIsNotFound ==
    [][(lastCall'.n # lastCall.n /\ lastCall'.path \notin DOMAIN preloadedFiles) =>
            /\ lastCall'.ret = 0
            /\ mem' = mem
            /\ preloadedFiles' = preloadedFiles]_vars

\* C9 witness: the font is in the store and the guest asked to copy a path
\* that was never listed.
C9_Witness ==
    /\ lastCall.fn = "js_copy_file_to_wasm"
    /\ lastCall.path # FontPath
    /\ FontPath \in DOMAIN preloadedFiles
    /\ preloadedFiles[FontPath] # <<>>
    /\ lastCall.ret = 0

\* A second case of C9: the font's fetch failed and the guest asked its size.
C9_FailedFetchCase ==
    /\ lastCall.fn = "js_get_file_size"
    /\ lastCall.path = FontPath
    /\ fetchState[FontPath] \in {"http_error", "net_error", "body_error"}
    /\ lastCall.ret = 0

\* The paths whose fetch delivered its bytes.
Fetched == {p \in PreloadPaths : fetchState[p] = "ok"}

\* C10: a fetch that fails stores nothing and stops nothing: the store never
\* holds a path whose fetch did not succeed, once every fetch has settled
\* init() can go on whatever the outcomes were, from then on the store holds
\* exactly the paths whose fetch succeeded, and no path is fetched twice.
C10_FailedFetchAbsent ==
    /\ DOMAIN preloadedFiles \subseteq Fetched
    /\ (pc = "await_preload" /\ \A p \in PreloadPaths : Settled(fetchState[p])) =>
        ENABLED PreloadDone
    /\ pc \notin {"start", "await_preload"} =>
        /\ \A p \in PreloadPaths : Settled(fetchState[p])
        /\ DOMAIN preloadedFiles = Fetched
    /\ \A p \in PreloadPaths : fetchCount[p] <= 1
    /\ initError \in {"none", "fetch_wasm", "instantiating", "in_main"}

\* C10 witness: the font's fetch failed, and wasm_main has run all the same.
C10_Witness ==
    /\ fetchState[FontPath] \in {"http_error", "net_error"}
    /\ FontPath \notin DOMAIN preloadedFiles
    /\ fetchCount[FontPath] = 1
    /\ mainCalls = 1
    /\ pc = "idle"

\* This step ran the listener of a DOM event of one of these types.
Handled(types) ==
    /\ domEvent' # domEvent \/ pushCount' # pushCount
    /\ domEvent'.type \in types

\* The event this step appended to the queue.
Pushed == eventQueue'[Len(eventQueue')]

PushedOne == Len(eventQueue') = Len(eventQueue) + 1 /\ eventQueue' = Append(eventQueue, Pushed)

\* C11: a keydown or keyup whose key maps to UNKNOWN leaves the queue as it
\* is, and no queued KEYBOARD event has key 0; a mousedown or mouseup of a
\* button other than 0, 1, 2 appends one MOUSE_BUTTON event with key 0; every
\* mousemove and every wheel event appends exactly one event.
C11_UnknownKeyDropped ==
    /\ [](\A i \in 1..Len(eventQueue) :
            eventQueue[i].type = OS_Window_Event_Type.KEYBOARD =>
                eventQueue[i].key # OS_Key.UNKNOWN)
    /\ [][/\ (Handled({"keydown", "keyup"})
                /\ mapKeyToOSKey(domEvent'.event) = OS_Key.UNKNOWN) =>
                    eventQueue' = eventQueue
          /\ (Handled({"mousedown", "mouseup"})
                /\ domEvent'.event.button \notin {0, 1, 2}) =>
                    /\ PushedOne
                    /\ Pushed.type = OS_Window_Event_Type.MOUSE_BUTTON
                    /\ Pushed.key = OS_Key.UNKNOWN
          /\ Handled({"mousemove", "wheel"}) => PushedOne]_vars

\* C11 witness: 'PageUp' went down and nothing was queued.
C11_Witness ==
    /\ domEvent.type = "keydown"
    /\ domEvent.event.key = <<80, 97, 103, 101, 85, 112>>
    /\ eventQueue = <<>>
    /\ pushCount = 0

\* A second case of C11: the back button went up and is queued with key 0.
C11_BackButtonCase ==
    /\ domEvent.type = "mouseup"
    /\ domEvent.event.button = 3
    /\ Len(eventQueue) = 1
    /\ eventQueue[1].type = OS_Window_Event_Type.MOUSE_BUTTON
    /\ eventQueue[1].key = 0 /\ eventQueue[1].pressed = 0

\* v is the negated sign of delta: -1, 0 or 1, whatever the magnitude.
NegatedSign(v, delta) ==
    /\ v \in {-1, 0, 1}
    /\ v * delta <= 0
    /\ v = 0 <=> delta = 0

\* C12: a wheel event appends one MOUSE_SCROLL event whose x is the negated
\* sign of deltaX and whose y is the negated sign of deltaY, with pressed = 0
\* and key = 0.
C12_WheelSign ==
    [][Handled({"wheel"}) =>
        /\ PushedOne
        /\ Pushed.type = OS_Window_Event_Type.MOUSE_SCROLL
        /\ NegatedSign(Pushed.x, domEvent'.event.deltaX)
        /\ NegatedSign(Pushed.y, domEvent'.event.deltaY)
        /\ Pushed.pressed = 0
        /\ Pushed.key = 0]_vars

\* C12 witness: deltaY = 120, deltaX = 0 is queued as y = -1, x = 0.
C12_Witness ==
    /\ domEvent.type = "wheel"
    /\ domEvent.event = [deltaX |-> 0, deltaY |-> 120]
    /\ Len(eventQueue) = 1
    /\ eventQueue[1].type = OS_Window_Event_Type.MOUSE_SCROLL
    /\ eventQueue[1].x = 0 /\ eventQueue[1].y = -1

\* n = floor(d2 / 2), d2 a length in half pixels.
FloorOfHalves(n, d2) == 2 * n <= d2 /\ d2 < 2 * n + 2

\* C13: mousedown, mouseup and mousemove append an event whose x is
\* floor(clientX - rect.left) and whose y is floor(clientY - rect.top) for
\* the canvas's bounding box at the event; a press at the canvas's top-left
\* corner is queued as a MOUSE_BUTTON event at (0, 0), wherever the canvas is.
C13_CanvasLocal ==
    [][Handled({"mousedown", "mouseup", "mousemove"}) =>
        /\ PushedOne
        /\ FloorOfHalves(Pushed.x, domEvent'.event.clientX2 - domEvent'.rect.left2)
        /\ FloorOfHalves(Pushed.y, domEvent'.event.clientY2 - domEvent'.rect.top2)
        /\ Pushed.type = IF domEvent'.type = "mousemove"
                         THEN OS_Window_Event_Type.MOUSE_MOVE
                         ELSE OS_Window_Event_Type.MOUSE_BUTTON
        /\ (/\ domEvent'.event.clientX2 = domEvent'.rect.left2
            /\ domEvent'.event.clientY2 = domEvent'.rect.top2) =>
                Pushed.x = 0 /\ Pushed.y = 0]_vars

\* C13 witness: a press at the corner of the canvas scrolled to (-20.5, 100)
\* is queued at (0, 0).
C13_Witness ==
    /\ domEvent.type = "mousedown"
    /\ domEvent.rect = [left2 |-> -41, top2 |-> 200]
    /\ domEvent.event.clientX2 = -41 /\ domEvent.event.clientY2 = 200
    /\ Len(eventQueue) = 1
    /\ eventQueue[1].type = OS_Window_Event_Type.MOUSE_BUTTON
    /\ eventQueue[1].x = 0 /\ eventQueue[1].y = 0

\* A second case of C13: a pointer at (300.5, 9.5) from the corner is at (300, 9).
C13_FractionCase ==
    /\ domEvent.type = "mousemove"
    /\ domEvent.event.clientX2 - domEvent.rect.left2 = 601
    /\ Len(eventQueue) = 1
    /\ eventQueue[1].x = 300 /\ eventQueue[1].y = 9

OSKeyValues == {OS_Key[f] : f \in DOMAIN OS_Key}

\* An event record of the queue is well formed.
WellFormed(e) ==
    /\ e.type \in {OS_Window_Event_Type.RESIZE, OS_Window_Event_Type.KEYBOARD,
                   OS_Window_Event_Type.MOUSE_BUTTON,
                   OS_Window_Event_Type.MOUSE_MOVE,
                   OS_Window_Event_Type.MOUSE_SCROLL}
    /\ e.pressed \in {0, 1}
    /\ e.key \in OSKeyValues
    /\ e.type = OS_Window_Event_Type.KEYBOARD =>
        e.x = 0 /\ e.y = 0 /\ e.key # OS_Key.UNKNOWN
    /\ e.type = OS_Window_Event_Type.MOUSE_BUTTON =>
        e.key \in {OS_Key.UNKNOWN, OS_Key.MOUSE_L, OS_Key.MOUSE_M, OS_Key.MOUSE_R}
    /\ e.type \in {OS_Window_Event_Type.MOUSE_MOVE,
                   OS_Window_Event_Type.MOUSE_SCROLL,
                   OS_Window_Event_Type.RESIZE} =>
        e.pressed = 0 /\ e.key = 0

\* C16: every record of the event queue is well formed: its type is RESIZE,
\* KEYBOARD, MOUSE_BUTTON, MOUSE_MOVE or MOUSE_SCROLL, pressed is 0 or 1, key
\* is a value of OS_Key; a KEYBOARD event is at (0, 0) with a key other than
\* UNKNOWN, a MOUSE_BUTTON key is UNKNOWN or a mouse button, and the other
\* three types have pressed = 0 and key = 0.
C16_WellFormedQueue == \A i \in 1..Len(eventQueue) : WellFormed(eventQueue[i])

\* C16 witness: 'Z' went up and is queued as KEY_Z.
C16_Witness ==
    /\ Len(eventQueue) = 1
    /\ domEvent.type = "keyup"
    /\ domEvent.event.key = <<90>>
    /\ eventQueue[1] = [type |-> OS_Window_Event_Type.KEYBOARD, x |-> 0, y |-> 0,
                        pressed |-> 0, key |-> OS_Key.KEY_Z]

\* A second case of C16: leaving fullscreen queued a RESIZE to the canvas's
\* original size.
C16_ResizeCase ==
    /\ domEvent.type = "fullscreenchange"
    /\ ~fullscreen
    /\ Len(eventQueue) = 1
    /\ eventQueue[1] = [type |-> OS_Window_Event_Type.RESIZE, x |-> 300, y |-> 150,
                        pressed |-> 0, key |-> 0]

C14_CopiedMatrixCase ==
    /\ uniforms.drawn
    /\ uniforms.proj = Diagonal(FloatTwo)
    /\ [i \in 1..MatBytes |-> mem[MatPtr + i - 1]] = Diagonal(FloatOne)
    /\ memBuffer > 0

\* C17: at every wasm_frame invocation the count last given to
\* wasm_set_event_count is min(events captured since the previous tick, 128),
\* so 0 in a tick in which no event was captured.
C17_CountReportedEveryFrame ==
    pc = "in_frame" => setCountArg = Min(tickLen, MAX_EVENTS_PER_FRAME)

\* C17 as the code has it: at a wasm_frame invocation of a tick that found
\* N > 0 events the count last reported is min(N, 128); a tick that found
\* none calls wasm_frame alone, so the count is never reported as 0 and the
\* guest keeps what the last flush gave it.
C17_CountReportedWhenFlushed ==
    pc = "in_frame" =>
        IF tickLen > 0
        THEN setCountArg = Min(tickLen, MAX_EVENTS_PER_FRAME)
        ELSE /\ log = <<"wasm_frame">>
             /\ setCountArg # 0

\* A frame runs after a tick without events while the guest still has the
\* count of an earlier frame.
C17_StaleCountCase ==
    /\ pc = "in_frame"
    /\ tickLen = 0
    /\ setCountArg > 0

\* C18: the texture that is bound (currentTexture) is null or a texture that
\* is still in the handle table, so never one that webgl_destroy_texture has
\* deleted.
C18_BoundTextureLive ==
    \/ currentTexture = 0
    \/ \E h \in DOMAIN textureMap : textureMap[h] = currentTexture

\* The guest destroyed the handle it had bound: the texture is deleted and
\* out of the table, and still the one that is bound.
C18_DanglingCase ==
    /\ currentTexture # 0
    /\ currentTexture \in deletedTextures
    /\ \A h \in DOMAIN textureMap : textureMap[h] # currentTexture

\* C18, its last part: webgl_set_texture with a nonzero handle that is not in
\* the table leaves the bound texture and the pixel format as they are.
C18_UnknownHandleIgnored ==
    [][\A h \in GuestHandles \ ({0} \cup DOMAIN textureMap),
         f \in GuestPixelFormats :
            WebglSetTexture(h, f) =>
                /\ currentTexture' = currentTexture
                /\ currentTexturePixelFormat' = currentTexturePixelFormat]_vars

\* C19: a draw with no texture bound sets the use-texture flag and the
\* is-text flag to 0; the is-text flag is 1 only when a texture is bound and
\* its pixel format is ALPHA.
C19_NoTextureNoText ==
    [][uniforms' # uniforms =>
        /\ currentTexture = 0 =>
            (uniforms'.useTexture = 0 /\ uniforms'.isText = 0)
        /\ uniforms'.isText = 1 =>
            (currentTexture # 0 /\ currentTexturePixelFormat = PixelFormat.ALPHA)]_vars

\* The guest bound an ALPHA texture, unbound it with handle 0 and drew: the
\* draw has use-texture 0 and is-text 1.
C19_TextWithoutTextureCase ==
    /\ uniforms.drawn
    /\ currentTexture = 0
    /\ uniforms.useTexture = 0
    /\ uniforms.isText = 1

====
